---- MODULE Spec2Model ----
(***************************************************************************)
(* The worker protocol handler of sqlite-online (self.onmessage in         *)
(* src/src/App.tsx, lines 122-385) as a state machine.  The handler is an  *)
(* async function: a message starts one invocation, an invocation that     *)
(* reaches `await Sqlite.create()` / `await Sqlite.open(..)` is suspended  *)
(* until the promise settles, and the event loop may start the invocation  *)
(* of the next message meanwhile.                                          *)
(*                                                                         *)
(* The class Sqlite (imported from "./sqlite") is not part of the sources; *)
(* its methods are modelled from the specification's Engine Adapter        *)
(* contract over a small abstract database.                                *)
(***************************************************************************)
EXTENDS Naturals, Sequences, FiniteSets

\* ------------------------------------------------------------------ bounds
MaxCmds == 4      \* messages delivered to the worker in one behaviour
MaxRows == 2      \* rows a table can hold before the engine rejects an insert

\* ------------------------------------------------------------- input sets
TableNames == {"t1", "t2"}
Files == {"bad", "empty", "db1"}
Faults == {"none", "Error", "value"}
Queries == {"select", "insertRow", "createTable", "createIndex", "createAndSelect"}

\* Windowed-read payloads {currentTable, limit, offset, filters, sorters}.
W1 == [currentTable |-> "t1", limit |-> 1, offset |-> 0, filters |-> <<>>, sorters |-> <<>>]
W2 == [currentTable |-> "t1", limit |-> 2, offset |-> 0, filters |-> <<"gt1">>,
       sorters |-> <<"desc">>]
W3 == [currentTable |-> "t2", limit |-> 1, offset |-> 1, filters |-> <<>>, sorters |-> <<>>]
Windows == {W1, W2, W3}

\* exec payloads {query, currentTable, limit, offset, filters, sorters}.
ExecOf(q, w) ==
  [query |-> q, currentTable |-> w.currentTable, limit |-> w.limit,
   offset |-> w.offset, filters |-> w.filters, sorters |-> w.sorters]
Execs == {ExecOf(q, w) : q \in Queries, w \in Windows}

Inserts ==
  { [table |-> "t1", columns |-> <<"v">>, values |-> <<2>>],
    [table |-> "t2", columns |-> <<"v">>, values |-> <<1>>] }

Updates ==
  { [table |-> "t1", columns |-> <<"v">>, values |-> <<2>>, primaryValue |-> 1] }

Deletes ==
  { [table |-> "t1", primaryValue |-> 1] }

Exports ==
  { [table |-> "t1", filters |-> <<>>, sorters |-> <<>>, limit |-> 1, offset |-> 0,
     exportType |-> "table"],
    [table |-> "t1", filters |-> <<"gt1">>, sorters |-> <<"desc">>, limit |-> 2, offset |-> 0,
     exportType |-> "current"] }

NoPayload == [none |-> TRUE]

\* ------------------------------------------------------------ error values
NoError == [kind |-> "none", message |-> ""]
Err(kind, message) == [kind |-> kind, message |-> message]

\* `error instanceof Error`: CustomQueryError is a subclass of Error.
InstanceOfError(e) == e.kind \in {"Error", "CustomQueryError"}

\* The value an engine call throws when it fails for an outside reason.
FaultError(fault) ==
  IF fault = "Error" THEN Err("Error", "engine failure") ELSE Err("value", "thrown value")

\* --------------------------------------------------- the database handle
\* `let instance: Sqlite | null = null`.  A handle is the abstract content
\* of one database; origin is the number of the command whose create/open
\* built the object (its identity), 0 for null.
Null ==
  [origin |-> 0, tables |-> {}, indexes |-> {}, rows |-> [t \in TableNames |-> <<>>]]

\* The database image held by an uploaded file.
Image(file) ==
  IF file = "db1"
    THEN [tables |-> {"t1"}, indexes |-> {"i1"},
          rows |-> [t \in TableNames |-> IF t = "t1" THEN <<1>> ELSE <<>>]]
    ELSE [tables |-> {}, indexes |-> {}, rows |-> [t \in TableNames |-> <<>>]]

\* Sqlite.create(): a fresh, empty handle.
Sqlite_create(c) ==
  [origin |-> c, tables |-> {}, indexes |-> {}, rows |-> [t \in TableNames |-> <<>>]]

\* Sqlite.open(bytes): a handle parsed from the bytes; a malformed buffer
\* fails with a load error.
Sqlite_open(c, file) ==
  IF file = "bad"
    THEN [err |-> Err("Error", "file is not a database"), h |-> Null]
    ELSE [err |-> NoError,
          h |-> [origin |-> c, tables |-> Image(file).tables,
                 indexes |-> Image(file).indexes, rows |-> Image(file).rows]]

tablesSchema(h) == h.tables
indexesSchema(h) == h.indexes
firstTable(h) ==
  IF "t1" \in h.tables THEN "t1" ELSE IF "t2" \in h.tables THEN "t2" ELSE "null"

RECURSIVE Reverse(_)
Reverse(s) == IF s = <<>> THEN <<>> ELSE Append(Reverse(Tail(s)), Head(s))

RECURSIVE Filter(_, _)
Filter(s, filters) ==
  IF s = <<>> THEN <<>>
  ELSE IF filters = <<>> \/ Head(s) > 1
         THEN <<Head(s)>> \o Filter(Tail(s), filters)
         ELSE Filter(Tail(s), filters)

Min(a, b) == IF a < b THEN a ELSE b

\* getTableData(table, limit, offset, filters, sorters) -> [rows, maxSize]:
\* filter, sort, then LIMIT/OFFSET; maxSize counts the filtered rows.  An
\* unknown table is rejected.
Sqlite_getTableData(h, table, limit, offset, filters, sorters, fault) ==
  IF fault # "none" THEN [err |-> FaultError(fault), results |-> <<>>, maxSize |-> 0]
  ELSE IF table \notin h.tables
    THEN [err |-> Err("Error", "no such table"), results |-> <<>>, maxSize |-> 0]
  ELSE LET kept == Filter(h.rows[table], filters)
           sorted == IF sorters = <<>> THEN kept ELSE Reverse(kept)
       IN [err |-> NoError,
           results |-> SubSeq(sorted, offset + 1, Min(offset + limit, Len(sorted))),
           maxSize |-> Len(kept)]

\* exec(rawSQL) -> [rows, schemaChanged]: schemaChanged compares the table
\* and index name sets before and after the statement.
ExecEffect(h, query) ==
  IF query = "select" THEN
    IF "t1" \in h.tables THEN [ok |-> TRUE, h |-> h, results |-> h.rows["t1"]]
    ELSE [ok |-> FALSE, h |-> h, results |-> <<>>]
  ELSE IF query = "insertRow" THEN
    IF "t1" \in h.tables /\ Len(h.rows["t1"]) < MaxRows
      THEN [ok |-> TRUE, results |-> <<>>,
            h |-> [h EXCEPT !.rows["t1"] = Append(@, Len(@) + 1)]]
      ELSE [ok |-> FALSE, h |-> h, results |-> <<>>]
  ELSE IF query = "createTable" THEN
    IF "t2" \notin h.tables
      THEN [ok |-> TRUE, results |-> <<>>, h |-> [h EXCEPT !.tables = @ \cup {"t2"}]]
      ELSE [ok |-> FALSE, h |-> h, results |-> <<>>]
  ELSE IF query = "createIndex" THEN
    IF "t1" \in h.tables /\ "i2" \notin h.indexes
      THEN [ok |-> TRUE, results |-> <<>>, h |-> [h EXCEPT !.indexes = @ \cup {"i2"}]]
      ELSE [ok |-> FALSE, h |-> h, results |-> <<>>]
  ELSE \* createAndSelect: CREATE TABLE t2; SELECT 1
    IF "t2" \notin h.tables
      THEN [ok |-> TRUE, results |-> <<1>>, h |-> [h EXCEPT !.tables = @ \cup {"t2"}]]
      ELSE [ok |-> FALSE, h |-> h, results |-> <<>>]

Sqlite_exec(h, query, fault) ==
  IF fault # "none"
    THEN [err |-> FaultError(fault), h |-> h, results |-> <<>>, changed |-> FALSE]
  ELSE LET e == ExecEffect(h, query) IN
    IF ~e.ok
      THEN [err |-> Err("Error", "SQL error"), h |-> h, results |-> <<>>, changed |-> FALSE]
      ELSE [err |-> NoError, h |-> e.h, results |-> e.results,
            changed |-> (e.h.tables # h.tables \/ e.h.indexes # h.indexes)]

\* insert / update / delete: single-row mutations.
Sqlite_insert(h, table, columns, values, fault) ==
  IF fault # "none" THEN [err |-> FaultError(fault), h |-> h]
  ELSE IF table \notin h.tables \/ Len(h.rows[table]) >= MaxRows
    THEN [err |-> Err("Error", "insert rejected"), h |-> h]
  ELSE [err |-> NoError, h |-> [h EXCEPT !.rows[table] = Append(@, values[1])]]

Sqlite_update(h, table, columns, values, primaryValue, fault) ==
  IF fault # "none" THEN [err |-> FaultError(fault), h |-> h]
  ELSE IF table \notin h.tables
    THEN [err |-> Err("Error", "update rejected"), h |-> h]
  ELSE IF primaryValue \in 1..Len(h.rows[table])
    THEN [err |-> NoError, h |-> [h EXCEPT !.rows[table][primaryValue] = values[1]]]
  ELSE [err |-> NoError, h |-> h]

Sqlite_delete(h, table, primaryValue, fault) ==
  IF fault # "none" THEN [err |-> FaultError(fault), h |-> h]
  ELSE IF table \notin h.tables
    THEN [err |-> Err("Error", "delete rejected"), h |-> h]
  ELSE IF primaryValue \in 1..Len(h.rows[table])
    THEN [err |-> NoError,
          h |-> [h EXCEPT !.rows[table] =
                   SubSeq(@, 1, primaryValue - 1) \o SubSeq(@, primaryValue + 1, Len(@))]]
  ELSE [err |-> NoError, h |-> h]

\* download(): the binary image, here the handle's content.
Sqlite_download(h, fault) ==
  IF fault # "none" THEN [err |-> FaultError(fault), bytes |-> <<>>]
  ELSE [err |-> NoError, bytes |-> <<Cardinality(h.tables), Cardinality(h.indexes)>>]

\* CSV text: one header line (0) followed by one line per row.
Sqlite_getTableAsCsv(h, table, fault) ==
  IF fault # "none" THEN [err |-> FaultError(fault), results |-> <<>>]
  ELSE IF table \notin h.tables
    THEN [err |-> Err("Error", "no such table"), results |-> <<>>]
  ELSE [err |-> NoError, results |-> <<0>> \o h.rows[table]]

Sqlite_getCurrentDataAsCsv(h, table, limit, offset, filters, sorters, fault) ==
  LET r == Sqlite_getTableData(h, table, limit, offset, filters, sorters, fault) IN
    IF r.err.kind # "none" THEN [err |-> r.err, results |-> <<>>]
    ELSE [err |-> NoError, results |-> <<0>> \o r.results]

\* ------------------------------------------------------ posted messages
Msg(action, payload) == [action |-> action, payload |-> payload]

\* App.tsx 132-139 and 167-174: the schema + first-table snapshot.
InitComplete(h) ==
  Msg("initComplete",
      [tableSchema |-> tablesSchema(h), indexSchema |-> indexesSchema(h),
       currentTable |-> firstTable(h)])

QueryError(message, isCustomQueryError) ==
  Msg("queryError",
      [error |-> [message |-> message, isCustomQueryError |-> isCustomQueryError]])

\* The guard's reply with the flag of a user-SQL failure.
NotInitializedReply_Custom == QueryError("Database is not initialized", TRUE)

\* App.tsx 145-158: the reply of the `instance === null` guard.
NotInitializedReply == QueryError("Database is not initialized", FALSE)

\* App.tsx 363-384: the catch around the switch.
OuterCatch(e) ==
  IF InstanceOfError(e)
    THEN QueryError(e.message, e.kind = "CustomQueryError")
    ELSE QueryError("Unknown error", FALSE)

\* App.tsx 246-252: the catch inside case "exec"; what it rethrows.
ExecCatch(e) ==
  IF InstanceOfError(e) THEN Err("CustomQueryError", e.message) ELSE NoError

\* ------------------------------------------------- the cases of the switch
\* The outcome of one case body: the handle afterwards, the messages the
\* body posted, the error leaving the body (NoError if none) and, as
\* history, the engine methods it called, the call that threw ("" if none)
\* and the kind of value that call threw.
Done(h, posted, calls) ==
  [h |-> h, posted |-> posted, err |-> NoError, stage |-> "", thrown |-> "none",
   calls |-> calls]
Threw(h, e, stage, calls) ==
  [h |-> h, posted |-> <<>>, err |-> e, stage |-> stage, thrown |-> e.kind,
   calls |-> calls]

QueryComplete(r) ==
  Msg("queryComplete", [results |-> r.results, maxSize |-> r.maxSize])

\* A refresh that empties the table it has read.
CaseRefresh_Mutating(h, p, fault) ==
  LET r == Sqlite_getTableData(h, p.currentTable, p.limit, p.offset, p.filters,
                               p.sorters, fault)
  IN IF r.err.kind # "none" THEN Threw(h, r.err, "read", <<"getTableData">>)
     ELSE Done([h EXCEPT !.rows[p.currentTable] = <<>>], <<QueryComplete(r)>>,
               <<"getTableData">>)

\* case "refresh", App.tsx 179-198
CaseRefresh(h, p, fault) ==
  LET r == Sqlite_getTableData(h, p.currentTable, p.limit, p.offset, p.filters,
                               p.sorters, fault)
  IN IF r.err.kind # "none" THEN Threw(h, r.err, "read", <<"getTableData">>)
     ELSE Done(h, <<QueryComplete(r)>>, <<"getTableData">>)

\* case "getTableData", App.tsx 257-276
CaseGetTableData(h, p, fault) ==
  LET r == Sqlite_getTableData(h, p.currentTable, p.limit, p.offset, p.filters,
                               p.sorters, fault)
  IN IF r.err.kind # "none" THEN Threw(h, r.err, "read", <<"getTableData">>)
     ELSE Done(h, <<QueryComplete(r)>>, <<"getTableData">>)

\* An exec that tests the result set before the schema change.
CaseExec_RowsFirst(h, p, fault) ==
  LET x == Sqlite_exec(h, p.query, fault) IN
  IF x.err.kind # "none"
    THEN [h |-> h, posted |-> <<>>, err |-> ExecCatch(x.err),
          stage |-> "exec", thrown |-> x.err.kind, calls |-> <<"exec">>]
  ELSE IF Len(x.results) > 0
    THEN Done(x.h, <<Msg("customQueryComplete", [results |-> x.results])>>, <<"exec">>)
  ELSE IF x.changed
    THEN Done(x.h, <<Msg("updateInstance",
                         [tableSchema |-> tablesSchema(x.h),
                          indexSchema |-> indexesSchema(x.h)])>>, <<"exec">>)
  ELSE LET r == Sqlite_getTableData(x.h, p.currentTable, p.limit, p.offset,
                                    p.filters, p.sorters, "none")
       IN IF r.err.kind # "none"
            THEN [h |-> x.h, posted |-> <<>>, err |-> ExecCatch(r.err),
                  stage |-> "read", thrown |-> r.err.kind,
                  calls |-> <<"exec", "getTableData">>]
            ELSE Done(x.h, <<QueryComplete(r)>>, <<"exec", "getTableData">>)

\* case "exec", App.tsx 201-255.  An error thrown by instance.exec or by the
\* fallback read goes through the inner catch.
CaseExec(h, p, fault) ==
  LET x == Sqlite_exec(h, p.query, fault) IN
  IF x.err.kind # "none"
    THEN [h |-> h, posted |-> <<>>, err |-> ExecCatch(x.err),
          stage |-> "exec", thrown |-> x.err.kind, calls |-> <<"exec">>]
  ELSE IF x.changed
    THEN Done(x.h, <<Msg("updateInstance",
                         [tableSchema |-> tablesSchema(x.h),
                          indexSchema |-> indexesSchema(x.h)])>>, <<"exec">>)
  ELSE IF Len(x.results) > 0
    THEN Done(x.h, <<Msg("customQueryComplete", [results |-> x.results])>>, <<"exec">>)
  ELSE LET r == Sqlite_getTableData(x.h, p.currentTable, p.limit, p.offset,
                                    p.filters, p.sorters, "none")
       IN IF r.err.kind # "none"
            THEN [h |-> x.h, posted |-> <<>>, err |-> ExecCatch(r.err),
                  stage |-> "read", thrown |-> r.err.kind,
                  calls |-> <<"exec", "getTableData">>]
            ELSE Done(x.h, <<QueryComplete(r)>>, <<"exec", "getTableData">>)

\* case "download", App.tsx 278-288
CaseDownload(h, p, fault) ==
  LET r == Sqlite_download(h, fault) IN
  IF r.err.kind # "none" THEN Threw(h, r.err, "download", <<"download">>)
  ELSE Done(h, <<Msg("downloadComplete", [bytes |-> r.bytes])>>, <<"download">>)

\* case "update", App.tsx 290-303
CaseUpdate(h, p, fault) ==
  LET r == Sqlite_update(h, p.table, p.columns, p.values, p.primaryValue, fault) IN
  IF r.err.kind # "none" THEN Threw(h, r.err, "write", <<"update">>)
  ELSE Done(r.h, <<Msg("updateComplete", [type |-> "updated"])>>, <<"update">>)

\* A delete case without its break: control falls into case "insert".
CaseDelete_NoBreak(h, p, fault) ==
  LET r == Sqlite_delete(h, p.table, p.primaryValue, fault) IN
  IF r.err.kind # "none" THEN Threw(h, r.err, "write", <<"delete">>)
  ELSE Done(r.h, <<Msg("updateComplete", [type |-> "deleted"]),
                   Msg("insertComplete", NoPayload)>>, <<"delete">>)

\* case "delete", App.tsx 305-317
CaseDelete(h, p, fault) ==
  LET r == Sqlite_delete(h, p.table, p.primaryValue, fault) IN
  IF r.err.kind # "none" THEN Threw(h, r.err, "write", <<"delete">>)
  ELSE Done(r.h, <<Msg("updateComplete", [type |-> "deleted"])>>, <<"delete">>)

\* case "insert", App.tsx 319-330
CaseInsert(h, p, fault) ==
  LET r == Sqlite_insert(h, p.table, p.columns, p.values, fault) IN
  IF r.err.kind # "none" THEN Threw(h, r.err, "write", <<"insert">>)
  ELSE Done(r.h, <<Msg("insertComplete", NoPayload)>>, <<"insert">>)

\* case "export", App.tsx 334-358
CaseExport(h, p, fault) ==
  IF p.exportType = "table"
    THEN LET r == Sqlite_getTableAsCsv(h, p.table, fault) IN
         IF r.err.kind # "none" THEN Threw(h, r.err, "export", <<"getTableAsCsv">>)
         ELSE Done(h, <<Msg("exportComplete", [results |-> r.results])>>,
                   <<"getTableAsCsv">>)
    ELSE LET r == Sqlite_getCurrentDataAsCsv(h, p.table, p.limit, p.offset,
                                             p.filters, p.sorters, fault) IN
         IF r.err.kind # "none" THEN Threw(h, r.err, "export", <<"getCurrentDataAsCsv">>)
         ELSE Done(h, <<Msg("exportComplete", [results |-> r.results])>>,
                   <<"getCurrentDataAsCsv">>)

\* A default case that answers the unknown action with an error.
CaseDefault_Replies(h, p, fault) ==
  Done(h, <<QueryError("Unknown action", FALSE)>>, <<>>)

\* default, App.tsx 360-361: console.warn only
CaseDefault(h, p, fault) == Done(h, <<>>, <<>>)

\* try { switch } catch, App.tsx 160-384: everything the invocation posts.
TryCatch(r) ==
  IF r.err.kind = "none" THEN r.posted ELSE Append(r.posted, OuterCatch(r.err))

\* ---------------------------------------------------------------- state
VARIABLES
  instance,    \* the module-level `instance` (Null for null)
  arrived,     \* number of messages whose invocation has started
  pending,     \* invocations suspended at `await Sqlite.create()/open()`
  postedBy,    \* for every message posted so far, in posting order, the
               \* number of the command whose invocation posted it
  last,        \* history: the most recent step of an invocation
  lastLoader,  \* history: the latest-arrived init/openFile that succeeded
  seen         \* history: the most recent refresh that succeeded

workerVars == <<instance, arrived, pending, postedBy, last, lastLoader, seen>>

\* The App component, App.tsx 12-104: the store's fields it reads, its own
\* state, and the page it was loaded in.
VARIABLES
  db,          \* store: whether a database is loaded (App.tsx 13)
  tables,      \* store: tables.length (App.tsx 13)
  isLoading,   \* store: a loadDatabase is running (App.tsx 13)
  fetchError,  \* useState, App.tsx 14 ("null" for null)
  showDialog,  \* useState, App.tsx 15
  urlToFetch,  \* useState, App.tsx 16 ("null" for null)
  isFetching,  \* useState, App.tsx 17
  hasFetched,  \* useRef, App.tsx 18
  search,      \* the `url` parameter of window.location.search ("null": absent)
  inflight,    \* fetchDatabase invocations and uploads suspended at an await
  view,        \* what renderContent returned at the latest render
  effects,     \* number of runs of the effect of App.tsx 51-61
  uploads,     \* number of files dropped on the upload widget
  trail        \* history of the fetches and of the dialog

appVars ==
  <<db, tables, isLoading, fetchError, showDialog, urlToFetch, isFetching,
    hasFetched, search, inflight, view, effects, uploads, trail>>

\* The functions of lib/sqlite.ts: the call made last.
VARIABLES
  fn,          \* name of the function called ("none" before the first call)
  args,        \* its arguments
  ret          \* what it returned or threw, and what it saved

libVars == <<fn, args, ret>>

vars == <<workerVars, appVars, libVars>>

\* A renderContent that shows the table view for every loaded database.
renderContent_NoEmptyCheck(loading, fetching, error, database, n) ==
  IF loading \/ fetching
    THEN (IF fetching THEN "Fetching SQLite file" ELSE "Loading SQLite file")
  ELSE IF error # "null" /\ ~database THEN "fetchError"
  ELSE IF database THEN "DBTable"
  ELSE "null"

\* renderContent, App.tsx 70-87.
renderContent(loading, fetching, error, database, n) ==
  IF loading \/ fetching
    THEN (IF fetching THEN "Fetching SQLite file" ELSE "Loading SQLite file")
  ELSE IF error # "null" /\ ~database THEN "fetchError"
  ELSE IF database
    THEN (IF n > 0 THEN "DBTable" ELSE "Your database is empty, no tables found")
  ELSE "null"

NoTrail ==
  [auto |-> 0, proxy |-> 0, confirmed |-> 0, opened |-> 0, cause |-> "none",
   proxyFailed |-> 0]

\* The component after its first render, App.tsx 13-18, in a page whose url
\* parameter is s.
AppStart(s) ==
  /\ db = FALSE
  /\ tables = 0
  /\ isLoading = FALSE
  /\ fetchError = "null"
  /\ showDialog = FALSE
  /\ urlToFetch = "null"
  /\ isFetching = FALSE
  /\ hasFetched = FALSE
  /\ search = s
  /\ inflight = {}
  /\ view = renderContent(FALSE, FALSE, "null", FALSE, 0)
  /\ effects = 0
  /\ uploads = 0
  /\ trail = NoTrail

\* No function of lib/sqlite.ts has been called.
LibIdle ==
  /\ fn = "none"
  /\ args = <<>>
  /\ ret = <<>>

NoSeen == [valid |-> FALSE, payload |-> W1, handle |-> Null, posted |-> <<>>]

\* One step of the invocation of command cmd: pre is `instance` when the
\* invocation started, held is `instance` just before this step, posted the
\* messages the step posted, rejected whether the invocation's promise
\* rejected, overtaken whether a later command other than init/openFile was
\* handled (run on the handle then in place, or refused) while this
\* invocation was suspended, prev the value of seen before the step.
Step(cmd, action, payload, pre, held, status, r, rejected, overtaken, prev) ==
  [cmd |-> cmd, action |-> action, payload |-> payload, pre |-> pre, held |-> held,
   status |-> status, stage |-> r.stage, thrown |-> r.thrown, calls |-> r.calls,
   posted |-> r.posted, rejected |-> rejected, overtaken |-> overtaken, prev |-> prev]

\* The worker module after it was evaluated, App.tsx 122.
WorkerStart ==
  /\ instance = Null
  /\ arrived = 0
  /\ pending = {}
  /\ postedBy = <<>>
  /\ last = Step(0, "none", NoPayload, Null, Null, "none", Done(Null, <<>>, <<>>),
                 FALSE, FALSE, NoSeen)
  /\ lastLoader = 0
  /\ seen = NoSeen

Init == WorkerStart /\ AppStart("null") /\ LibIdle

Max(a, b) == IF a > b THEN a ELSE b

Posts(c, posted) == [i \in 1..Len(posted) |-> c]

Suspended(c, action, file) ==
  [cmd |-> c, action |-> action, file |-> file, pre |-> instance, overtaken |-> FALSE]

\* action === "init", App.tsx 128-129: the invocation runs up to the await.
OnInit ==
  /\ arrived < MaxCmds
  /\ arrived' = arrived + 1
  /\ pending' = pending \cup {Suspended(arrived + 1, "init", "none")}
  /\ last' = Step(arrived + 1, "init", NoPayload, instance, instance, "suspended",
                  Done(instance, <<>>, <<"create">>), FALSE, FALSE, NoSeen)
  /\ UNCHANGED <<instance, postedBy, lastLoader, seen>>
  /\ UNCHANGED <<appVars, libVars>>

\* App.tsx 129-141: Sqlite.create() fulfilled; assign, post, return.
InitResolved ==
  \E p \in pending :
    /\ p.action = "init"
    /\ instance' = Sqlite_create(p.cmd)
    /\ postedBy' = Append(postedBy, p.cmd)
    /\ pending' = pending \ {p}
    /\ last' = Step(p.cmd, "init", NoPayload, p.pre, instance, "done",
                    Done(instance', <<InitComplete(instance')>>, <<>>),
                    FALSE, p.overtaken, NoSeen)
    /\ lastLoader' = Max(lastLoader, p.cmd)
    /\ UNCHANGED <<arrived, seen>>
    /\ UNCHANGED <<appVars, libVars>>

\* App.tsx 129: Sqlite.create() rejected.  The await is outside any try:
\* nothing is assigned or posted and the invocation's promise rejects.
InitRejected ==
  \E p \in pending, fault \in Faults \ {"none"} :
    /\ p.action = "init"
    /\ pending' = pending \ {p}
    /\ last' = Step(p.cmd, "init", NoPayload, p.pre, instance, "failed",
                    Threw(instance, FaultError(fault), "create", <<>>),
                    TRUE, p.overtaken, NoSeen)
    /\ UNCHANGED <<instance, arrived, postedBy, lastLoader, seen>>
    /\ UNCHANGED <<appVars, libVars>>

Commands ==
  {"init", "openFile", "refresh", "exec", "getTableData", "download", "update",
   "delete", "insert", "export"}

\* App.tsx 145-158: any action but init while instance is null.
OnNotInitialized ==
  \E action \in (Commands \ {"init"}) \cup {"unknown"} :
    /\ arrived < MaxCmds
    /\ instance = Null
    /\ arrived' = arrived + 1
    /\ postedBy' = postedBy \o Posts(arrived + 1, <<NotInitializedReply>>)
    /\ pending' = IF action \in Commands \ {"init", "openFile"}
                    THEN {[p EXCEPT !.overtaken = TRUE] : p \in pending}
                    ELSE pending
    /\ last' = Step(arrived + 1, action, NoPayload, instance, instance, "refused",
                    Done(instance, <<NotInitializedReply>>, <<>>), FALSE, FALSE, NoSeen)
    /\ UNCHANGED <<instance, lastLoader, seen>>
    /\ UNCHANGED <<appVars, libVars>>

\* case "openFile", App.tsx 163-164: the invocation runs up to the await.
OnOpenFile ==
  \E file \in Files :
    /\ arrived < MaxCmds
    /\ instance # Null
    /\ arrived' = arrived + 1
    /\ pending' = pending \cup {Suspended(arrived + 1, "openFile", file)}
    /\ last' = Step(arrived + 1, "openFile", [file |-> file], instance, instance,
                    "suspended", Done(instance, <<>>, <<"open">>), FALSE, FALSE, NoSeen)
    /\ UNCHANGED <<instance, postedBy, lastLoader, seen>>
    /\ UNCHANGED <<appVars, libVars>>

\* App.tsx 164-176: Sqlite.open() fulfilled; assign, post, break.
OpenFileResolved ==
  \E p \in pending :
    /\ p.action = "openFile"
    /\ Sqlite_open(p.cmd, p.file).err.kind = "none"
    /\ instance' = Sqlite_open(p.cmd, p.file).h
    /\ postedBy' = Append(postedBy, p.cmd)
    /\ pending' = pending \ {p}
    /\ last' = Step(p.cmd, "openFile", [file |-> p.file], p.pre, instance, "done",
                    Done(instance', <<InitComplete(instance')>>, <<>>),
                    FALSE, p.overtaken, NoSeen)
    /\ lastLoader' = Max(lastLoader, p.cmd)
    /\ UNCHANGED <<arrived, seen>>
    /\ UNCHANGED <<appVars, libVars>>

\* App.tsx 164, 363-384: Sqlite.open() rejected inside the try; the
\* assignment does not happen and the outer catch posts the error.
OpenFileRejected ==
  \E p \in pending, fault \in Faults :
    /\ p.action = "openFile"
    /\ fault = "none" => Sqlite_open(p.cmd, p.file).err.kind # "none"
    /\ LET e == IF fault = "none" THEN Sqlite_open(p.cmd, p.file).err
                ELSE FaultError(fault)
           r == Threw(instance, e, "open", <<>>)
       IN /\ postedBy' = postedBy \o Posts(p.cmd, TryCatch(r))
          /\ last' = Step(p.cmd, "openFile", [file |-> p.file], p.pre, instance, "failed",
                          [r EXCEPT !.posted = TryCatch(r)], FALSE, p.overtaken, NoSeen)
    /\ pending' = pending \ {p}
    /\ UNCHANGED <<instance, arrived, lastLoader, seen>>
    /\ UNCHANGED <<appVars, libVars>>

\* A case of the switch that runs without suspending: App.tsx 160-384 with
\* instance non-null.  r is the outcome of the case body.
Dispatch(action, payload, r) ==
  /\ arrived < MaxCmds
  /\ instance # Null
  /\ arrived' = arrived + 1
  /\ instance' = r.h
  /\ postedBy' = postedBy \o Posts(arrived + 1, TryCatch(r))
  /\ pending' = IF r.calls = <<>> THEN pending
                ELSE {[p EXCEPT !.overtaken = TRUE] : p \in pending}
  /\ last' = Step(arrived + 1, action, payload, instance, instance,
                  IF r.stage = "" THEN "done" ELSE "failed",
                  [r EXCEPT !.posted = TryCatch(r)], FALSE, FALSE,
                  IF action = "refresh" THEN seen ELSE NoSeen)
  /\ seen' = IF action = "refresh" /\ r.stage = ""
               THEN [valid |-> TRUE, payload |-> payload, handle |-> r.h,
                     posted |-> TryCatch(r)]
               ELSE seen
  /\ UNCHANGED lastLoader
  /\ UNCHANGED <<appVars, libVars>>

OnRefresh ==
  \E p \in Windows, fault \in Faults :
    Dispatch("refresh", p, CaseRefresh(instance, p, fault))

OnExec ==
  \E p \in Execs, fault \in Faults :
    Dispatch("exec", p, CaseExec(instance, p, fault))

OnGetTableData ==
  \E p \in Windows, fault \in Faults :
    Dispatch("getTableData", p, CaseGetTableData(instance, p, fault))

OnDownload ==
  \E fault \in Faults :
    Dispatch("download", NoPayload, CaseDownload(instance, NoPayload, fault))

OnUpdate ==
  \E p \in Updates, fault \in Faults :
    Dispatch("update", p, CaseUpdate(instance, p, fault))

OnDelete ==
  \E p \in Deletes, fault \in Faults :
    Dispatch("delete", p, CaseDelete(instance, p, fault))

OnInsert ==
  \E p \in Inserts, fault \in Faults :
    Dispatch("insert", p, CaseInsert(instance, p, fault))

OnExport ==
  \E p \in Exports, fault \in Faults :
    Dispatch("export", p, CaseExport(instance, p, fault))

OnUnknown ==
  Dispatch("unknown", NoPayload, CaseDefault(instance, NoPayload, "none"))

Next ==
  \/ OnInit
  \/ InitResolved
  \/ InitRejected
  \/ OnNotInitialized
  \/ OnOpenFile
  \/ OpenFileResolved
  \/ OpenFileRejected
  \/ OnRefresh
  \/ OnExec
  \/ OnGetTableData
  \/ OnDownload
  \/ OnUpdate
  \/ OnDelete
  \/ OnInsert
  \/ OnExport
  \/ OnUnknown

Spec == Init /\ [][Next]_vars

\* ---------------------------------------------------------------- claims
Count(seq, c) == Cardinality({i \in 1..Len(seq) : seq[i] = c})

Loaders == {"init", "openFile"}

\* C1: every command is processed to completion before the next one starts:
\* no invocation starts while an earlier init/openFile is suspended at its
\* await (a suspended invocation is always the latest arrival), and the
\* responses are posted in the order in which their commands arrived.
C1_Serialized ==
  /\ \A p \in pending : p.cmd = arrived
  /\ \A i, j \in 1..Len(postedBy) : i < j => postedBy[i] <= postedBy[j]

\* C2: a command other than init/openFile is handled on the handle of the
\* most recently arrived successful init/openFile: none is handled (run on
\* the handle about to be replaced, or refused) while an earlier-arrived
\* init/openFile that succeeds is still suspended, and once no invocation
\* is suspended the live handle is the one produced by the last-arrived
\* successful init/openFile.
C2_LatestHandle ==
  /\ (last.status = "done" /\ last.action \in Loaders) => ~last.overtaken
  /\ (pending = {} /\ lastLoader > 0) => instance.origin = lastLoader

SuccessActions(action) ==
  CASE action \in Loaders -> {"initComplete"}
    [] action \in {"refresh", "getTableData"} -> {"queryComplete"}
    [] action = "exec" -> {"updateInstance", "customQueryComplete", "queryComplete"}
    [] action = "insert" -> {"insertComplete"}
    [] action \in {"update", "delete"} -> {"updateComplete"}
    [] action = "download" -> {"downloadComplete"}
    [] action = "export" -> {"exportComplete"}
    [] OTHER -> {}

\* C3: in the Ready state, a command of the dispatch table whose effect
\* completes without a failure causes exactly one posted response, which is
\* the success action the table assigns to the command; no queryError is
\* posted for it.
C3_OneSuccessResponse ==
  (last.pre # Null /\ last.action \in Commands /\ last.status = "done") =>
    /\ Len(last.posted) = 1
    /\ last.posted[1].action \in SuccessActions(last.action)
    /\ Count(postedBy, last.cmd) = 1

C3_Witness ==
  /\ last.pre # Null /\ last.action = "openFile" /\ last.status = "done"
  /\ Count(postedBy, last.cmd) = 1

\* C4: whenever the effect of a command fails, whatever is thrown, the
\* handler posts exactly one queryError and no success response for the
\* command, and the failure does not leave the handler as a rejection.
C4_OneErrorResponse ==
  last.status = "failed" =>
    /\ Len(last.posted) = 1
    /\ last.posted[1].action = "queryError"
    /\ Count(postedBy, last.cmd) = 1
    /\ ~last.rejected

\* C5: an openFile that arrives while instance is null is accepted like
\* init: it is not refused, and when it completes it has created the handle
\* and is answered with initComplete.
C5_OpenFileWhenUninitialized ==
  (last.action = "openFile" /\ last.pre = Null) =>
    /\ last.status # "refused"
    /\ last.status = "done" =>
         (instance # Null /\ Len(last.posted) = 1
          /\ last.posted[1].action = "initComplete")

\* C6: while instance is null every command other than init and openFile is
\* answered with exactly one queryError "Database is not initialized" with
\* isCustomQueryError false, calls no engine method, and leaves instance null.
C6_NotInitialized ==
  (last.pre = Null /\ last.action \in Commands \ Loaders) =>
    /\ last.status = "refused"
    /\ last.posted = <<QueryError("Database is not initialized", FALSE)>>
    /\ Count(postedBy, last.cmd) = 1
    /\ last.calls = <<>>
    /\ instance = Null

C6_Witness ==
  last.pre = Null /\ last.action = "exec" /\ last.status = "refused"

\* C7: if openFile or init fails while a handle is loaded, instance is still
\* the handle held before, exactly one error response is posted, and the
\* handle answers a following read as it did before.
C7_FailedLoadKeepsHandle ==
  (last.action \in Loaders /\ last.pre # Null /\ last.status = "failed") =>
    /\ instance = last.held
    /\ Len(last.posted) = 1
    /\ last.posted[1].action = "queryError"
    /\ \A w \in Windows :
         CaseGetTableData(instance, w, "none") = CaseGetTableData(last.held, w, "none")

\* C8: a successful exec posts exactly one response: updateInstance with the
\* handle's current table and index schemas when the statement changed the
\* table/index definitions; otherwise customQueryComplete with the result
\* rows when there are any; otherwise queryComplete with the windowed read
\* of the payload's table, limit, offset, filters and sorters.
C8_ExecResponse ==
  (last.action = "exec" /\ last.status = "done") =>
    LET x == Sqlite_exec(last.pre, last.payload.query, "none")
        w == last.payload
    IN /\ Len(last.posted) = 1
       /\ x.changed =>
            last.posted[1] =
              Msg("updateInstance", [tableSchema |-> tablesSchema(instance),
                                     indexSchema |-> indexesSchema(instance)])
       /\ (~x.changed /\ x.results # <<>>) =>
            last.posted[1] = Msg("customQueryComplete", [results |-> x.results])
       /\ (~x.changed /\ x.results = <<>>) =>
            last.posted[1] =
              QueryComplete(Sqlite_getTableData(instance, w.currentTable, w.limit,
                                                w.offset, w.filters, w.sorters, "none"))

C8_Witness ==
  /\ last.action = "exec" /\ last.status = "done"
  /\ last.payload.query = "createAndSelect"
  /\ last.posted[1].action = "updateInstance"

\* C9: in every error response isCustomQueryError is true exactly when the
\* failure came from running the user's SQL of an exec command; it is false
\* for the failures of internal plumbing, the handler's own windowed read
\* included.
C9_CustomFlag ==
  \A i \in 1..Len(last.posted) :
    last.posted[i].action = "queryError" =>
      (last.posted[i].payload.error.isCustomQueryError
         <=> (last.action = "exec" /\ last.stage = "exec"))

C18_UnknownAction ==
  last.action = "unknown" =>
    /\ last.pre # Null =>
         /\ last.status = "done"
         /\ last.posted = <<>>
         /\ Count(postedBy, last.cmd) = 0
         /\ instance = last.pre
    /\ last.pre = Null =>
         /\ last.posted = <<QueryError("Database is not initialized", FALSE)>>
         /\ Count(postedBy, last.cmd) = 1
         /\ instance = Null

C18_Witness ==
  /\ last.action = "unknown" /\ last.pre # Null /\ last.status = "done"
  /\ postedBy # <<>> /\ Count(postedBy, last.cmd) = 0

\* ------------------------------------------------ the App component
MaxTables == 2

MaxEffects == 2

MaxUploads == 1

\* Values of urlParams.get("url"), App.tsx 53-54: absent, empty, a URL, and
\* a URL that is still percent-encoded.
Searches == {"null", "", "http://h/db", "http%3A%2F%2Fh%2Fdb"}

\* decodeURIComponent, App.tsx 58.
decodeURIComponent(u) == IF u = "http%3A%2F%2Fh%2Fdb" THEN "http://h/db" ELSE u

\* `if (url)`, App.tsx 57 and 64: null and the empty string are falsy.
Truthy(u) == u \notin {"null", ""}

\* An effect that does not consult hasFetched.
EffectFetches_NoRef(fetched, url) == Truthy(url)

\* The guard of the effect, App.tsx 52-57: whether this run starts the fetch.
EffectFetches(fetched, url) == ~fetched /\ Truthy(url)

\* fetchDatabase(url, useProxy) up to `await fetch(fetchUrl)`, App.tsx 21-27.
Call(url, useProxy) ==
  [kind |-> "fetchDatabase", url |-> url, useProxy |-> useProxy, at |-> "fetch", n |-> 0]

\* A file dropped on the upload widget, suspended in the store's loadDatabase.
Dropped(n) ==
  [kind |-> "upload", url |-> "null", useProxy |-> FALSE, at |-> "load", n |-> n]

\* React renders again after the state changed: App.tsx 70-87, 94.
Render == view' = renderContent(isLoading', isFetching', fetchError', db', tables')

\* A catch that offers the retry after a failed proxy attempt as well.
Catch_Reopen(c, cause) ==
  /\ inflight' = inflight \ {c}
  /\ isFetching' = FALSE
  /\ urlToFetch' = c.url
  /\ showDialog' = TRUE
  /\ trail' = [trail EXCEPT !.opened = @ + 1, !.cause = cause,
                            !.proxyFailed = IF c.useProxy THEN @ + 1 ELSE @]
  /\ UNCHANGED fetchError

\* catch and finally of fetchDatabase, App.tsx 35-46, entered for cause.
Catch(c, cause) ==
  /\ inflight' = inflight \ {c}
  /\ isFetching' = FALSE
  /\ IF ~c.useProxy
       THEN /\ urlToFetch' = c.url
            /\ showDialog' = TRUE
            /\ trail' = [trail EXCEPT !.opened = @ + 1, !.cause = cause]
            /\ UNCHANGED fetchError
       ELSE /\ fetchError' = "Error whilefetching"
            /\ trail' = [trail EXCEPT !.proxyFailed = @ + 1]
            /\ UNCHANGED <<urlToFetch, showDialog>>

AppInit == WorkerStart /\ (\E s \in Searches : AppStart(s)) /\ LibIdle

\* The effect of App.tsx 51-61 runs: after the first render, and again
\* whenever fetchDatabase changes.
Effect ==
  /\ effects < MaxEffects
  /\ effects' = effects + 1
  /\ IF EffectFetches(hasFetched, search)
       THEN /\ isFetching' = TRUE
            /\ inflight' = inflight \cup {Call(decodeURIComponent(search), FALSE)}
            /\ hasFetched' = TRUE
            /\ trail' = [trail EXCEPT !.auto = @ + 1]
       ELSE UNCHANGED <<isFetching, inflight, hasFetched, trail>>
  /\ UNCHANGED <<db, tables, isLoading, fetchError, showDialog, urlToFetch, search, uploads>>
  /\ Render
  /\ UNCHANGED <<workerVars, libVars>>

\* `await fetch(fetchUrl)` settles, App.tsx 27-30: fulfilled with response.ok,
\* fulfilled with a failure status, or rejected.
FetchSettled ==
  \E c \in inflight, outcome \in {"ok", "status", "fetch"} :
    /\ c.kind = "fetchDatabase" /\ c.at = "fetch"
    /\ IF outcome = "ok"
         THEN /\ inflight' = (inflight \ {c}) \cup {[c EXCEPT !.at = "blob"]}
              /\ UNCHANGED <<fetchError, showDialog, urlToFetch, isFetching, trail>>
         ELSE Catch(c, outcome)
    /\ UNCHANGED <<db, tables, isLoading, hasFetched, search, effects, uploads>>
    /\ Render
    /\ UNCHANGED <<workerVars, libVars>>

\* `await response.blob()` settles, App.tsx 31-33: on success loadDatabase
\* is called with the file.
BlobSettled ==
  \E c \in inflight, ok \in BOOLEAN :
    /\ c.kind = "fetchDatabase" /\ c.at = "blob"
    /\ IF ok
         THEN /\ inflight' = (inflight \ {c}) \cup {[c EXCEPT !.at = "load"]}
              /\ isLoading' = TRUE
              /\ UNCHANGED <<fetchError, showDialog, urlToFetch, isFetching, trail>>
         ELSE Catch(c, "blob") /\ UNCHANGED isLoading
    /\ UNCHANGED <<db, tables, hasFetched, search, effects, uploads>>
    /\ Render
    /\ UNCHANGED <<workerVars, libVars>>

\* The store's loadDatabase fulfils with a database of n tables; for a
\* fetched file fetchDatabase goes on, App.tsx 33-34 and 44-46.
LoadResolved ==
  \E c \in inflight, n \in 0..MaxTables :
    /\ c.at = "load"
    /\ inflight' = inflight \ {c}
    /\ db' = TRUE
    /\ tables' = n
    /\ isLoading' = FALSE
    /\ IF c.kind = "fetchDatabase"
         THEN fetchError' = "null" /\ isFetching' = FALSE
         ELSE UNCHANGED <<fetchError, isFetching>>
    /\ UNCHANGED <<showDialog, urlToFetch, hasFetched, search, effects, uploads, trail>>
    /\ Render
    /\ UNCHANGED <<workerVars, libVars>>

\* The store's loadDatabase rejects; for a fetched file the catch of
\* fetchDatabase runs, App.tsx 33 and 35-46.
LoadRejected ==
  \E c \in inflight :
    /\ c.at = "load"
    /\ isLoading' = FALSE
    /\ IF c.kind = "fetchDatabase"
         THEN Catch(c, "load")
         ELSE /\ inflight' = inflight \ {c}
              /\ UNCHANGED <<fetchError, showDialog, urlToFetch, isFetching, trail>>
    /\ UNCHANGED <<db, tables, hasFetched, search, effects, uploads>>
    /\ Render
    /\ UNCHANGED <<workerVars, libVars>>

\* The user drops a file on <UploadFile />, App.tsx 93: the store's
\* loadDatabase starts.
Upload ==
  /\ effects > 0
  /\ uploads < MaxUploads
  /\ uploads' = uploads + 1
  /\ isLoading' = TRUE
  /\ inflight' = inflight \cup {Dropped(uploads + 1)}
  /\ UNCHANGED <<db, tables, fetchError, showDialog, urlToFetch, isFetching,
                 hasFetched, search, effects, trail>>
  /\ Render
  /\ UNCHANGED <<workerVars, libVars>>

\* The user confirms the dialog, which calls fn: handleRetryWithProxy,
\* App.tsx 63-68 and 95-99.
DialogConfirm ==
  /\ showDialog
  /\ IF Truthy(urlToFetch)
       THEN /\ isFetching' = TRUE
            /\ inflight' = inflight \cup {Call(urlToFetch, TRUE)}
            /\ showDialog' = FALSE
            /\ trail' = [trail EXCEPT !.confirmed = @ + 1, !.proxy = @ + 1]
       ELSE /\ trail' = [trail EXCEPT !.confirmed = @ + 1]
            /\ UNCHANGED <<isFetching, inflight, showDialog>>
  /\ UNCHANGED <<db, tables, isLoading, fetchError, urlToFetch, hasFetched, search,
                 effects, uploads>>
  /\ Render
  /\ UNCHANGED <<workerVars, libVars>>

\* The user dismisses the dialog, which calls setShowDialog(false),
\* App.tsx 95-98.
DialogDismiss ==
  /\ showDialog
  /\ showDialog' = FALSE
  /\ UNCHANGED <<db, tables, isLoading, fetchError, urlToFetch, isFetching, hasFetched,
                 search, inflight, effects, uploads, trail>>
  /\ Render
  /\ UNCHANGED <<workerVars, libVars>>

AppNext ==
  \/ Effect
  \/ FetchSettled
  \/ BlobSettled
  \/ LoadResolved
  \/ LoadRejected
  \/ Upload
  \/ DialogConfirm
  \/ DialogDismiss

SpecApp == AppInit /\ [][AppNext]_vars

FetchCalls == {c \in inflight : c.kind = "fetchDatabase"}

\* C11: for one page load the fetch through the proxy is started at most
\* once and only by a confirmation of the retry dialog; once a proxy attempt
\* has failed the dialog is closed and was opened only the one time, no
\* fetch is running, and fetchError holds the error.
C11_ProxyOnceAfterConfirm ==
  /\ trail.proxy <= 1
  /\ trail.proxy <= trail.confirmed
  /\ trail.proxyFailed > 0 =>
       /\ ~showDialog
       /\ trail.opened = 1
       /\ FetchCalls = {}
       /\ fetchError = "Error whilefetching"

C11_Witness ==
  trail.proxyFailed = 1 /\ trail.proxy = 1 /\ fetchError = "Error whilefetching"

\* C12: the retry dialog is opened only by a rejection of the direct fetch
\* itself: not by a response with a failure status, and not by a failure of
\* response.blob() or of loadDatabase after a successful fetch.
C12_DialogOnlyOnFetchRejection ==
  trail.opened > 0 => trail.cause = "fetch"

\* C16: while no load and no fetch is in progress, a loaded database with
\* no tables shows the "no tables found" message; the table view is shown
\* only for a loaded database with at least one table while neither
\* isLoading nor isFetching is set.
C16_TableViewOnlyWithTables ==
  /\ (db /\ tables = 0 /\ ~isLoading /\ ~isFetching) =>
       view = "Your database is empty, no tables found"
  /\ view = "DBTable" => (db /\ tables > 0 /\ ~isLoading /\ ~isFetching)

C16_Witness ==
  /\ db /\ tables = 0 /\ ~isLoading /\ ~isFetching
  /\ view = "Your database is empty, no tables found"

\* C20: whenever no fetchDatabase invocation is outstanding isFetching is
\* false and the UI does not show "Fetching", whatever the outcomes of the
\* invocations were; and the effect starts the automatic fetch at most once
\* however often it runs.
C20_FetchingCleared ==
  /\ FetchCalls = {} => (~isFetching /\ view # "Fetching SQLite file")
  /\ trail.auto <= 1

C20_Witness ==
  /\ effects >= 2 /\ trail.auto = 1
  /\ trail.proxyFailed = 1 /\ FetchCalls = {} /\ ~isFetching

\* ------------------------------------------------ lib/sqlite.ts: getTableSchema
MaxCols == 2

MaxFks == 2

ColumnNames == {"a", "b", "c"}

Types == {"INTEGER", "TEXT"}

\* The sequences of n different elements of S.
Distinct(S, n) == {q \in [1..n -> S] : \A i, j \in 1..n : i # j => q[i] # q[j]}

Range(q) == {q[i] : i \in 1..Len(q)}

\* The tables getTableSchema is asked about: a table that does not exist, and
\* the tables declared with columns cols of types types, primary key key (in
\* its declared order) and foreign keys on the columns fks, which may name a
\* column the table does not have.
NoTable == [exists |-> FALSE, cols |-> <<>>, types |-> <<>>, key |-> <<>>, fks |-> <<>>]

TablesOn(c) ==
  {[exists |-> TRUE, cols |-> c, types |-> t, key |-> k, fks |-> f] :
     t \in [1..Len(c) -> Types],
     k \in UNION {Distinct(Range(c), m) : m \in 0..Len(c)},
     f \in UNION {[1..m -> ColumnNames \cup {"x"}] : m \in 0..MaxFks}}

\* The column lists of the declared tables.
ColumnLists == UNION {Distinct(ColumnNames, n) : n \in 1..MaxCols}

\* Position of name in the primary key, 0 when it is not part of it.
KeyPosition(key, name) ==
  IF name \in Range(key) THEN CHOOSE i \in 1..Len(key) : key[i] = name ELSE 0

\* database.exec(`PRAGMA table_info(...)`), sqlite.ts 36: no result set for
\* a table that does not exist, else one row per column, of which the code
\* reads row[1] (name), row[2] (type) and row[5] (pk: the column's 1-based
\* position in the primary key, 0 for a column outside it).
table_info(t) ==
  IF ~t.exists THEN <<>>
  ELSE <<[values |-> [i \in 1..Len(t.cols) |->
                        [name |-> t.cols[i], type |-> t.types[i],
                         pk |-> KeyPosition(t.key, t.cols[i])]]]>>

\* database.exec(`PRAGMA foreign_key_list(...)`), sqlite.ts 46-48: no result
\* set without foreign keys, else one row per foreign key, of which the code
\* reads row[3] (the referencing column).
foreign_key_list(t) ==
  IF t.fks = <<>> THEN <<>>
  ELSE <<[values |-> [i \in 1..Len(t.fks) |-> [from |-> t.fks[i]]]]>>

\* acc[key] = value on a JavaScript object.
Put(acc, key, value) ==
  [k \in DOMAIN acc \cup {key} |-> IF k = key THEN value ELSE acc[k]]

\* The reduce of sqlite.ts 37-44 over rows[i..].
RECURSIVE ReduceColumns(_, _, _)
ReduceColumns(rows, i, acc) ==
  IF i > Len(rows) THEN acc
  ELSE ReduceColumns(rows, i + 1,
         Put(acc, rows[i].name,
             [type |-> rows[i].type, isPrimaryKey |-> rows[i].pk = 1,
              isForeignKey |-> FALSE]))

\* A body of the forEach that does not test tableSchema[columnName].
MarkForeignKey_Unguarded(tableSchema, columnName) ==
  Put(tableSchema, columnName,
      IF columnName \in DOMAIN tableSchema
        THEN [tableSchema[columnName] EXCEPT !.isForeignKey = TRUE]
        ELSE [isForeignKey |-> TRUE])

\* The body of the forEach, sqlite.ts 51-54.
MarkForeignKey(tableSchema, columnName) ==
  IF columnName \in DOMAIN tableSchema
    THEN [tableSchema EXCEPT ![columnName].isForeignKey = TRUE]
    ELSE tableSchema

\* The forEach of sqlite.ts 50-55 over rows[i..].
RECURSIVE ForEachForeignKey(_, _, _)
ForEachForeignKey(rows, i, tableSchema) ==
  IF i > Len(rows) THEN tableSchema
  ELSE ForEachForeignKey(rows, i + 1, MarkForeignKey(tableSchema, rows[i].from))

\* getTableSchema, sqlite.ts 34-63: tableInfoResult[0].values throws when
\* there is no result set, and the catch rethrows.
getTableSchema(t) ==
  LET tableInfoResult == table_info(t)
      foreignKeyInfoResult == foreign_key_list(t)
  IN IF tableInfoResult = <<>> THEN [threw |-> TRUE, value |-> <<>>]
     ELSE LET tableSchema == ReduceColumns(tableInfoResult[1].values, 1, <<>>)
          IN [threw |-> FALSE,
              value |-> IF Len(foreignKeyInfoResult) > 0
                          THEN ForEachForeignKey(foreignKeyInfoResult[1].values, 1,
                                                 tableSchema)
                          ELSE tableSchema]

\* A caller is about to ask for the schema of some table.
SchemaInit ==
  /\ WorkerStart
  /\ AppStart("null")
  /\ fn = "none"
  /\ \/ args = NoTable
     \/ \E c \in ColumnLists : args \in TablesOn(c)
  /\ ret = <<>>

\* The call of getTableSchema returns or throws.
GetTableSchema ==
  /\ fn = "none"
  /\ fn' = "getTableSchema"
  /\ ret' = getTableSchema(args)
  /\ UNCHANGED <<args, workerVars, appVars>>

SpecSchema == SchemaInit /\ [][GetTableSchema]_vars

\* C13: the schema map returned for a table has exactly the column names
\* reported by table_info as its keys (a foreign-key row naming any other
\* column adds none), and a column's isForeignKey is true exactly when some
\* foreign-key row names it as the referencing column.
C13_SchemaKeys ==
  (fn = "getTableSchema" /\ ~ret.threw) =>
    /\ DOMAIN ret.value = {row.name : row \in Range(table_info(args)[1].values)}
    /\ \A k \in DOMAIN ret.value :
         ret.value[k].isForeignKey <=> k \in Range(args.fks)

C13_Witness ==
  /\ fn = "getTableSchema" /\ ~ret.threw
  /\ "x" \in Range(args.fks) /\ "a" \in Range(args.fks) /\ args.cols = <<"b", "a">>
  /\ ret.value["a"].isForeignKey /\ ~ret.value["b"].isForeignKey

\* C17: a column's isPrimaryKey is true exactly when the column is part of
\* the table's declared primary key, whether the key has one column or several.
C17_PrimaryKeyFlag ==
  (fn = "getTableSchema" /\ ~ret.threw) =>
    \A k \in DOMAIN ret.value : ret.value[k].isPrimaryKey <=> k \in Range(args.key)

\* ------------------------------------------------ lib/sqlite.ts: mapQueryResults
MaxWidth == 2

MaxTuples == 2

Scalars == {1, 2}

\* The results of database.exec given to mapQueryResults: no result set, or
\* one with a column list, in which a name may occur twice, and value tuples
\* of its width.
ResultSets ==
  {<<>>} \cup
  UNION {
    {<<[columns |-> c, values |-> v]>> :
       v \in UNION {[1..m -> [1..Len(c) -> Scalars]] : m \in 0..MaxTuples}} :
    c \in UNION {[1..n -> {"a", "b"}] : n \in 0..MaxWidth}}

\* A reduce that keeps the value a column name got first.
RECURSIVE ReduceRow_FirstWins(_, _, _, _)
ReduceRow_FirstWins(columns, row, index, acc) ==
  IF index > Len(columns) THEN acc
  ELSE ReduceRow_FirstWins(columns, row, index + 1,
         IF columns[index] \in DOMAIN acc THEN acc
         ELSE Put(acc, columns[index], row[index]))

\* columns.reduce((acc, col, index) => { acc[col] = row[index]; ... }, {}),
\* sqlite.ts 70-76, from position index on.
RECURSIVE ReduceRow(_, _, _, _)
ReduceRow(columns, row, index, acc) ==
  IF index > Len(columns) THEN acc
  ELSE ReduceRow(columns, row, index + 1, Put(acc, columns[index], row[index]))

\* mapQueryResults, sqlite.ts 66-81.
mapQueryResults(result) ==
  IF Len(result) > 0
    THEN LET columns == result[1].columns
         IN [data |-> [r \in 1..Len(result[1].values) |->
                         ReduceRow(columns, result[1].values[r], 1, <<>>)],
             columns |-> columns]
    ELSE [data |-> <<>>, columns |-> <<>>]

\* mapQueryResults is about to be called with some result.
RowsInit ==
  /\ WorkerStart
  /\ AppStart("null")
  /\ fn = "none"
  /\ args \in ResultSets
  /\ ret = <<>>

\* The call of mapQueryResults returns.
MapQueryResults ==
  /\ fn = "none"
  /\ fn' = "mapQueryResults"
  /\ ret' = mapQueryResults(args)
  /\ UNCHANGED <<args, workerVars, appVars>>

SpecRows == RowsInit /\ [][MapQueryResults]_vars

\* The last position at which name occurs in columns.
LastIndex(columns, name) ==
  CHOOSE i \in 1..Len(columns) :
    columns[i] = name /\ \A j \in (i + 1)..Len(columns) : columns[j] # name

\* C14 as stated: the columns returned are the result set's column list, there
\* is one row per value tuple in the same order, and every row maps the
\* column name at every position i to the tuple's value at position i, also
\* when a name occurs twice; an empty result gives no rows and no columns.
C14_RowsZip ==
  fn = "mapQueryResults" =>
    IF args = <<>> THEN ret.data = <<>> /\ ret.columns = <<>>
    ELSE /\ ret.columns = args[1].columns
         /\ Len(ret.data) = Len(args[1].values)
         /\ \A r \in 1..Len(ret.data), i \in 1..Len(ret.columns) :
              ret.data[r][ret.columns[i]] = args[1].values[r][i]

\* C14 amended: as above, but every row maps each column name to the tuple's
\* value at the last position where the name occurs, and has no other keys.
C14_RowsZipLast ==
  fn = "mapQueryResults" =>
    IF args = <<>> THEN ret.data = <<>> /\ ret.columns = <<>>
    ELSE /\ ret.columns = args[1].columns
         /\ Len(ret.data) = Len(args[1].values)
         /\ \A r \in 1..Len(ret.data) :
              /\ DOMAIN ret.data[r] = Range(ret.columns)
              /\ \A i \in 1..Len(ret.columns) :
                   ret.data[r][ret.columns[i]] =
                     args[1].values[r][LastIndex(ret.columns, ret.columns[i])]

C14_Witness ==
  /\ fn = "mapQueryResults" /\ args # <<>>
  /\ args[1].columns = <<"a", "a">> /\ args[1].values = <<<<1, 2>>, <<2, 1>>>>
  /\ ret.data[1]["a"] = 2 /\ ret.data[2]["a"] = 1

\* ------------------------------------------------ lib/sqlite.ts: arrayToCSV
MaxLen == 2

MaxLines == 1

\* A text is the sequence of its characters.
Chars == {"a", "\"", ",", "\n"}

Texts == UNION {[1..n -> Chars] : n \in 0..MaxLen}

\* The texts without a character that CSV treats specially.
PlainTexts == {<<>>, <<"a">>}

\* The row objects over the columns c: they map the first column to any
\* text `${row[col]}` and the other columns to a plain text.
RowObjects(c) ==
  {[k \in Range(c) |-> IF k = c[1] THEN t ELSE u] : t \in Texts, u \in PlainTexts}

\* The column lists given to arrayToCSV.
CsvColumns == {<<<<"c">>>>, <<<<"c">>, <<"d">>>>}

\* The arguments of arrayToCSV with the column names c: up to MaxLines rows.
CsvInputs(c) ==
  {[columns |-> c, rows |-> r] :
     r \in UNION {[1..m -> RowObjects(c)] : m \in 0..MaxLines}}

\* parts.join(sep), sqlite.ts 94, 96, 98.
RECURSIVE Join(_, _)
Join(parts, sep) ==
  IF parts = <<>> THEN <<>>
  ELSE IF Len(parts) = 1 THEN parts[1]
  ELSE parts[1] \o <<sep>> \o Join(Tail(parts), sep)

\* arrayToCSV, sqlite.ts 93-99.
arrayToCSV(columns, rows) ==
  LET header == Join(columns, ",")
      csvRows == [r \in 1..Len(rows) |->
                    Join([i \in 1..Len(columns) |->
                            <<"\"">> \o rows[r][columns[i]] \o <<"\"">>], ",")]
  IN Join(<<header>> \o csvRows, "\n")

\* arrayToCSV is about to be called with some columns and rows.
CsvInit ==
  /\ WorkerStart
  /\ AppStart("null")
  /\ fn = "none"
  /\ \E c \in CsvColumns : args \in CsvInputs(c)
  /\ ret = <<>>

\* The call of arrayToCSV returns.
ArrayToCSV ==
  /\ fn = "none"
  /\ fn' = "arrayToCSV"
  /\ ret' = arrayToCSV(args.columns, args.rows)
  /\ UNCHANGED <<args, workerVars, appVars>>

SpecCsv == CsvInit /\ [][ArrayToCSV]_vars

\* A text with every double quote in it doubled.
RECURSIVE Doubled(_)
Doubled(text) ==
  IF text = <<>> THEN <<>>
  ELSE (IF Head(text) = "\"" THEN <<"\"", "\"">> ELSE <<Head(text)>>)
       \o Doubled(Tail(text))

\* A field as the standard CSV quoting rules write it.
Quoted(text) == <<"\"">> \o Doubled(text) \o <<"\"">>

\* The cell texts of the header and of the rows, line by line.
CellTexts(columns, rows) ==
  <<columns>> \o
  [r \in 1..Len(rows) |-> [i \in 1..Len(columns) |-> rows[r][columns[i]]]]

\* Reading CSV text by the standard quoting rules, from position i on: mode
\* is "start" at the start of a field, "plain" inside an unquoted field,
\* "quoted" inside a quoted one and "closing" after a double quote inside
\* a quoted one.  Text that breaks the rules is not ok.
RECURSIVE ParseCsv(_, _, _, _, _, _)
ParseCsv(text, i, mode, field, record, records) ==
  IF i > Len(text)
    THEN IF mode = "quoted" THEN [ok |-> FALSE, records |-> <<>>]
         ELSE [ok |-> TRUE, records |-> Append(records, Append(record, field))]
  ELSE
    LET ch == text[i]
        EndField == ParseCsv(text, i + 1, "start", <<>>, Append(record, field), records)
        EndRecord == ParseCsv(text, i + 1, "start", <<>>, <<>>,
                              Append(records, Append(record, field)))
        Add(next) == ParseCsv(text, i + 1, next, Append(field, ch), record, records)
        Broken == [ok |-> FALSE, records |-> <<>>]
    IN CASE mode = "quoted" ->
              IF ch = "\"" THEN ParseCsv(text, i + 1, "closing", field, record, records)
              ELSE Add("quoted")
         [] mode = "closing" ->
              IF ch = "\"" THEN Add("quoted")
              ELSE IF ch = "," THEN EndField
              ELSE IF ch = "\n" THEN EndRecord
              ELSE Broken
         [] OTHER ->
              IF ch = "," THEN EndField
              ELSE IF ch = "\n" THEN EndRecord
              ELSE IF ch = "\"" THEN
                (IF mode = "start"
                   THEN ParseCsv(text, i + 1, "quoted", field, record, records)
                   ELSE Broken)
              ELSE Add("plain")

\* C15: the CSV text is the header line followed by one line per row in row
\* order, cells in column order, every field wrapped in double quotes with
\* the double quotes inside it doubled; and reading the text by the standard
\* CSV quoting rules gives back exactly the original cell texts.
C15_CsvRoundTrip ==
  fn = "arrayToCSV" =>
    LET cells == CellTexts(args.columns, args.rows)
    IN /\ ret = Join([l \in 1..Len(cells) |->
                        Join([i \in 1..Len(cells[l]) |-> Quoted(cells[l][i])], ",")],
                     "\n")
       /\ ParseCsv(ret, 1, "start", <<>>, <<>>, <<>>) = [ok |-> TRUE, records |-> cells]

\* ------------------------------------------------ lib/sqlite.ts: CSV export
MaxDbTables == 3

\* What database.exec(`SELECT * FROM ${tableName}`) does for a table: it
\* returns a result set, returns none (the table has no rows), or throws.
Selects == {"rows", "empty", "error"}

\* The databases given to the export functions: the tables t1, t2, ... in
\* the order of sqlite_master, each with the outcome of its SELECT.
Databases ==
  UNION {{[i \in 1..n |-> [name |-> i, select |-> q[i]]] : q \in [1..n -> Selects]} :
         n \in 0..MaxDbTables}

\* The arguments of the export functions; tableIndex counts from 0 and may
\* be past the last table.
ExportInputs ==
  {[database |-> d, tableIndex |-> k] : d \in Databases, k \in 0..MaxDbTables}

\* getTableNames, sqlite.ts 21-31.
getTableNames(database) == [i \in 1..Len(database) |-> database[i].name]

\* The try block of sqlite.ts 105-116 and 128-137 for the table at position
\* i of the database (none: tableName is undefined and the SELECT throws):
\* the files saved, and whether it threw.
TryExport(database, i) ==
  IF i \in 1..Len(database) /\ database[i].select = "rows"
    THEN [saved |-> <<[file |-> getTableNames(database)[i], type |-> "csv"]>>,
          threw |-> FALSE]
    ELSE [saved |-> <<>>, threw |-> TRUE]

\* A forEach whose catch rethrows.
RECURSIVE ForEachTable_Rethrow(_, _, _)
ForEachTable_Rethrow(database, i, saved) ==
  IF i > Len(getTableNames(database)) THEN [saved |-> saved, threw |-> FALSE]
  ELSE IF TryExport(database, i).threw THEN [saved |-> saved, threw |-> TRUE]
  ELSE ForEachTable_Rethrow(database, i + 1, saved \o TryExport(database, i).saved)

\* tableNames.forEach of sqlite.ts 126-140 from position i on: the catch
\* only logs, so the loop goes on and nothing is thrown.
RECURSIVE ForEachTable(_, _, _)
ForEachTable(database, i, saved) ==
  IF i > Len(getTableNames(database)) THEN [saved |-> saved, threw |-> FALSE]
  ELSE ForEachTable(database, i + 1, saved \o TryExport(database, i).saved)

\* exportAllTablesAsCSV, sqlite.ts 124-141.
exportAllTablesAsCSV(database) == ForEachTable(database, 1, <<>>)

\* exportTableAsCSV, sqlite.ts 102-121: the catch rethrows.
exportTableAsCSV(database, tableIndex) == TryExport(database, tableIndex + 1)

\* An export function is about to be called.
ExportInit ==
  /\ WorkerStart
  /\ AppStart("null")
  /\ fn = "none"
  /\ args \in ExportInputs
  /\ ret = <<>>

\* The call of exportAllTablesAsCSV returns.
ExportAllTablesAsCSV ==
  /\ fn = "none"
  /\ fn' = "exportAllTablesAsCSV"
  /\ ret' = exportAllTablesAsCSV(args.database)
  /\ UNCHANGED <<args, workerVars, appVars>>

\* The call of exportTableAsCSV returns or throws.
ExportTableAsCSV ==
  /\ fn = "none"
  /\ fn' = "exportTableAsCSV"
  /\ ret' = exportTableAsCSV(args.database, args.tableIndex)
  /\ UNCHANGED <<args, workerVars, appVars>>

ExportNext ==
  \/ ExportAllTablesAsCSV
  \/ ExportTableAsCSV

SpecExport == ExportInit /\ [][ExportNext]_vars

HasRows(t) == t.select = "rows"

\* C19: exportAllTablesAsCSV throws nothing and saves exactly one CSV file for
\* every table whose SELECT returns a result set, in the order of
\* getTableNames, whatever the tables before it did; exportTableAsCSV saves
\* the one file when the SELECT of its table returns a result set, and
\* otherwise throws and saves nothing.
C19_ExportAllSkipsFailures ==
  /\ fn = "exportAllTablesAsCSV" =>
       /\ ~ret.threw
       /\ ret.saved = [i \in 1..Len(SelectSeq(args.database, HasRows)) |->
                         [file |-> SelectSeq(args.database, HasRows)[i].name,
                          type |-> "csv"]]
  /\ fn = "exportTableAsCSV" =>
       LET i == args.tableIndex + 1
       IN IF i <= Len(args.database) /\ HasRows(args.database[i])
            THEN ~ret.threw /\ ret.saved = <<[file |-> args.database[i].name, type |-> "csv"]>>
            ELSE ret.threw /\ ret.saved = <<>>

C19_Witness ==
  /\ fn = "exportAllTablesAsCSV"
  /\ Len(args.database) = 3
  /\ args.database[1].select = "error" /\ args.database[2].select = "empty"
  /\ args.database[3].select = "rows"
  /\ ret.saved = <<[file |-> 3, type |-> "csv"]>>
====
